---- MODULE Spec2Model ----
(***************************************************************************)
(* Model of yabe (src/src/lib.rs): the expression  lhs * Bb.f1.f2...fk .    *)
(*                                                                         *)
(* A primitive integer type is named as in Rust ("i8" ... "u128").  A      *)
(* value of a type of width w is its two's-complement pattern, written as  *)
(* the sequence of its w/8 bytes, least significant first (the result of   *)
(* to_le_bytes()).  A chain Bb.f1...fk has the type                        *)
(* RL<Opk, ... RL<Op1, Bb>>; it is modelled by the sequence                 *)
(* <<Op1, ..., Opk>> of the marker struct names.                           *)
(***************************************************************************)
EXTENDS Integers, Sequences, FiniteSets, TLC

\* Longest chain of fields the model writes after Bb.
MaxChain == 3

NoImpl == "NoImpl"

----------------------------------------------------------------------------
(* The primitive integer types.                                            *)

\* impl_id!(i8 u8 i16 u16 i32 u32 i64 u64 i128 u128)
Kinds == {"i8", "u8", "i16", "u16", "i32", "u32", "i64", "u64", "i128", "u128"}

\* impl_su!(i8 > u8, i16 > u16, i32 > u32, i64 > u64, i128 > u128): $S > $U
SuPairs == << <<"i8", "u8">>, <<"i16", "u16">>, <<"i32", "u32">>,
              <<"i64", "u64">>, <<"i128", "u128">> >>

\* Whether T is the $S of its impl_su! pair.
IsSigned(T) == \E i \in DOMAIN SuPairs : SuPairs[i][1] = T

\* Bit width of a primitive type (T::BITS).
Width(T) ==
    CASE T \in {"i8", "u8"} -> 8
      [] T \in {"i16", "u16"} -> 16
      [] T \in {"i32", "u32"} -> 32
      [] T \in {"i64", "u64"} -> 64
      [] T \in {"i128", "u128"} -> 128

\* <T as MkSigned>::Signed
MkSignedSigned(T) ==
    LET i == CHOOSE j \in DOMAIN SuPairs : T \in {SuPairs[j][1], SuPairs[j][2]}
    IN  SuPairs[i][1]

\* <T as MkUnsigned>::Unsigned
MkUnsignedUnsigned(T) ==
    LET i == CHOOSE j \in DOMAIN SuPairs : T \in {SuPairs[j][1], SuPairs[j][2]}
    IN  SuPairs[i][2]

----------------------------------------------------------------------------
(* Field lookup through the Deref impls.                                   *)

\* The marker structs, each with the one public field it declares.
FieldOf(S) ==
    CASE S = "CastSigned" -> "s"
      [] S = "CastUnsigned" -> "u"
      [] S = "Truncate8" -> "t8"
      [] S = "Truncate16" -> "t16"
      [] S = "Truncate32" -> "t32"
      [] S = "Truncate64" -> "t64"
      [] S = "Extend64" -> "e64"
      [] S = "Extend32" -> "e32"
      [] S = "Extend16" -> "e16"
      [] S = "Extend128" -> "e128"
      [] OTHER -> "none"

\* <S as Deref>::Target; Extend128 implements no Deref.
DerefTarget(S) ==
    CASE S = "Bb" -> "CastSigned"
      [] S = "RL" -> "CastSigned"
      [] S = "CastSigned" -> "CastUnsigned"
      [] S = "CastUnsigned" -> "Truncate8"
      [] S = "Truncate8" -> "Extend64"
      [] S = "Extend64" -> "Truncate16"
      [] S = "Truncate16" -> "Extend32"
      [] S = "Extend32" -> "Truncate32"
      [] S = "Truncate32" -> "Extend16"
      [] S = "Extend16" -> "Truncate64"
      [] S = "Truncate64" -> "Extend128"
      [] OTHER -> "none"

FieldNames == {"s", "u", "t8", "t16", "t32", "t64", "e16", "e32", "e64", "e128"}

Ops == {"CastSigned", "CastUnsigned", "Truncate8", "Truncate16", "Truncate32",
        "Truncate64", "Extend16", "Extend32", "Extend64", "Extend128"}

\* The expression  stage.name : auto-deref from `stage` until a struct
\* declaring `name` is found; the struct found names the operation.
RECURSIVE FieldLookup(_, _)
FieldLookup(stage, name) ==
    IF FieldOf(stage) = name THEN stage
    ELSE IF DerefTarget(stage) = "none" THEN "none"
    ELSE FieldLookup(DerefTarget(stage), name)

\* The fields met by the auto-deref walk from `stage`, in order.
RECURSIVE DerefWalk(_)
DerefWalk(stage) ==
    LET here == IF FieldOf(stage) = "none" THEN << >> ELSE << FieldOf(stage) >>
    IN  IF DerefTarget(stage) = "none" THEN here
        ELSE here \o DerefWalk(DerefTarget(stage))

----------------------------------------------------------------------------
(* Trait resolution: which  T * chain  type-check, and to what type.       *)

\* The applied_to! invocations: $Op => $U: $($T)*
AppliedToImpls ==
    << [op |-> "Truncate8",  out |-> "i8",   srcs |-> {"i16", "i32", "i64", "i128"}],
       [op |-> "Truncate8",  out |-> "u8",   srcs |-> {"u16", "u32", "u64", "u128"}],
       [op |-> "Truncate16", out |-> "i16",  srcs |-> {"i32", "i64", "i128"}],
       [op |-> "Truncate16", out |-> "u16",  srcs |-> {"u32", "u64", "u128"}],
       [op |-> "Truncate32", out |-> "i32",  srcs |-> {"i64", "i128"}],
       [op |-> "Truncate32", out |-> "u32",  srcs |-> {"u64", "u128"}],
       [op |-> "Truncate64", out |-> "i64",  srcs |-> {"i128"}],
       [op |-> "Truncate64", out |-> "u64",  srcs |-> {"u128"}],
       [op |-> "Extend128",  out |-> "i128", srcs |-> {"i64", "i32", "i16", "i8"}],
       [op |-> "Extend64",   out |-> "i64",  srcs |-> {"i32", "i16", "i8"}],
       [op |-> "Extend32",   out |-> "i32",  srcs |-> {"i16", "i8"}],
       [op |-> "Extend16",   out |-> "i16",  srcs |-> {"i8"}],
       [op |-> "Extend128",  out |-> "u128", srcs |-> {"u64", "u32", "u16", "u8"}],
       [op |-> "Extend64",   out |-> "u64",  srcs |-> {"u32", "u16", "u8"}],
       [op |-> "Extend32",   out |-> "u32",  srcs |-> {"u16", "u8"}],
       [op |-> "Extend16",   out |-> "u16",  srcs |-> {"u8"}] >>

\* <Op as AppliedTo<Src>>::Output, or NoImpl when Op: AppliedTo<Src> has no impl.
AppliedToOutput(Op, Src) ==
    LET hit == {i \in DOMAIN AppliedToImpls :
                    AppliedToImpls[i].op = Op /\ Src \in AppliedToImpls[i].srcs}
    IN  IF hit = {} THEN NoImpl ELSE AppliedToImpls[CHOOSE i \in hit : TRUE].out

\* A faulty HasMulRL: impl_su! writing the Mul impls of a cast for the types
\* of that cast's own signedness only.
HasMulRL_OwnSign(Op, T) ==
    IF Op = "CastSigned" THEN \E i \in DOMAIN SuPairs : T = SuPairs[i][1]
    ELSE IF Op = "CastUnsigned" THEN \E i \in DOMAIN SuPairs : T = SuPairs[i][2]
    ELSE \E i \in DOMAIN AppliedToImpls :
            AppliedToImpls[i].op = Op /\ T \in AppliedToImpls[i].srcs

\* Whether some  impl<U> Mul<RL<Op, U>> for T  exists: impl_su! writes one for
\* every $S and $U, applied_to! one for each $T of its own list.
HasMulRL(Op, T) ==
    IF Op \in {"CastSigned", "CastUnsigned"}
    THEN \E i \in DOMAIN SuPairs : T \in {SuPairs[i][1], SuPairs[i][2]}
    ELSE \E i \in DOMAIN AppliedToImpls :
            AppliedToImpls[i].op = Op /\ T \in AppliedToImpls[i].srcs

\* MulT<T, chain> = <T as Mul<chain>>::Output, or NoImpl when T: Mul<chain>
\* does not hold.  The where clauses ask for T: Mul<U> on the inner chain U
\* and for MkSigned / MkUnsigned / AppliedTo on MulT<T, U>.
RECURSIVE MulT(_, _)
MulT(T, chain) ==
    IF chain = << >> THEN (IF T \in Kinds THEN T ELSE NoImpl)
    ELSE LET Op == chain[Len(chain)]
             U == SubSeq(chain, 1, Len(chain) - 1)
             inner == MulT(T, U)
         IN  IF ~HasMulRL(Op, T) \/ inner = NoImpl THEN NoImpl
             ELSE IF Op = "CastSigned" THEN MkSignedSigned(inner)
             ELSE IF Op = "CastUnsigned" THEN MkUnsignedUnsigned(inner)
             ELSE AppliedToOutput(Op, inner)

----------------------------------------------------------------------------
(* Values:  src as $U  on byte patterns.                                   *)

Byte == 0 .. 255

\* A faulty cast: widening always fills with zero bytes.
AsCastZeroExtend(src, Src, Dst) ==
    LET n == Width(Src) \div 8
        m == Width(Dst) \div 8
    IN  [i \in 1 .. m |-> IF i <= n THEN src[i] ELSE 0]

\* A faulty cast: narrowing keeps the high-order bytes.
AsCastHighBytes(src, Src, Dst) ==
    LET n == Width(Src) \div 8
        m == Width(Dst) \div 8
        fill == IF IsSigned(Src) /\ src[n] >= 128 THEN 255 ELSE 0
    IN  IF m < n THEN [i \in 1 .. m |-> src[n - m + i]]
        ELSE [i \in 1 .. m |-> IF i <= n THEN src[i] ELSE fill]

\* The numeric cast  src as Dst  of a value of type Src: a no-op between
\* types of one width, the low-order bytes when narrowing, and when
\* widening zero-extension of an unsigned source, sign-extension of a
\* signed one.
AsCast(src, Src, Dst) ==
    LET n == Width(Src) \div 8
        m == Width(Dst) \div 8
        fill == IF IsSigned(Src) /\ src[n] >= 128 THEN 255 ELSE 0
    IN  [i \in 1 .. m |-> IF i <= n THEN src[i] ELSE fill]

\* A faulty cast_signed: a value above the signed maximum is clamped to it.
cast_signed_clamp(self, T) ==
    IF IsSigned(T) \/ self[Len(self)] < 128 THEN self
    ELSE [i \in 1 .. Len(self) |-> IF i = Len(self) THEN 127 ELSE 255]

\* MkSigned::cast_signed
cast_signed(self, T) ==
    IF IsSigned(T) THEN self ELSE AsCast(self, T, MkSignedSigned(T))

\* A faulty cast_unsigned: a negative value is clamped to 0.
cast_unsigned_clamp(self, T) ==
    IF IsSigned(T) /\ self[Len(self)] >= 128 THEN [i \in 1 .. Len(self) |-> 0]
    ELSE self

\* MkUnsigned::cast_unsigned
cast_unsigned(self, T) ==
    IF IsSigned(T) THEN AsCast(self, T, MkUnsignedUnsigned(T)) ELSE self

\* AppliedTo::apply
apply(Op, src, T) == AsCast(src, T, AppliedToOutput(Op, T))

\* A faulty mul for Bb: the zeroed value make_zst would give.
mul_Bb_zeroed(self) == [i \in 1 .. Len(self) |-> 0]

\* impl Mul<Bb> for $T
mul_Bb(self) == self

\* A faulty nesting: the chain wrapped the other way round, the first field
\* written outermost.
CallOpReversed(c, d) == c[Len(c) + 1 - d]

\* The $Op of the  RL<$Op, U>  that carries d operations of chain c: the
\* d-th field written, U being the chain written before it.
CallOp(c, d) == c[d]

\* The body of  mul(self, _: RL<Op, U>)  once  self * make_zst::<U>()  has
\* returned `inner` of type T.
mul_RL(Op, inner, T) ==
    IF Op = "CastSigned" THEN cast_signed(inner, T)
    ELSE IF Op = "CastUnsigned" THEN cast_unsigned(inner, T)
    ELSE apply(Op, inner, T)

\* The type of that body's result.
mul_RL_Output(Op, T) ==
    IF Op = "CastSigned" THEN MkSignedSigned(T)
    ELSE IF Op = "CastUnsigned" THEN MkUnsignedUnsigned(T)
    ELSE AppliedToOutput(Op, T)

----------------------------------------------------------------------------
(* Inputs.                                                                 *)

\* Byte patterns of n bytes.
AllBytes(n, b) == [i \in 1 .. n |-> b]
LowByte(n, b) == [i \in 1 .. n |-> IF i = 1 THEN b ELSE 0]
TopByte(n, top, rest) == [i \in 1 .. n |-> IF i = n THEN top ELSE rest]
\* High bit set exactly in bytes 1, 2, 4, 8 and 16: every truncation of it
\* has its most significant bit set, and differs from the others.
EdgeSet(n) == [i \in 1 .. n |-> IF i \in {1, 2, 4, 8, 16} THEN 128 + i ELSE i]
\* High bit clear exactly in bytes 1, 2, 4, 8 and 16.
EdgeClear(n) == [i \in 1 .. n |-> IF i \in {1, 2, 4, 8, 16} THEN 112 + i ELSE 240 + i]

\* The left operands tried for a type T: 0, the all-ones pattern (-1, or
\* MAX), 5, 0xfe, MIN and MAX of the signed reading, and two mixed patterns.
Values(T) ==
    LET n == Width(T) \div 8
    IN  { AllBytes(n, 0), AllBytes(n, 255), LowByte(n, 5), LowByte(n, 254),
          TopByte(n, 128, 0), TopByte(n, 127, 255), EdgeSet(n), EdgeClear(n) }

----------------------------------------------------------------------------
(* The state machine.                                                      *)

VARIABLES
    chain,  \* the operations of the chain written so far, first field first
    pc,     \* "build", "call", "ret", "done" or "rejected"
    lhsT,   \* the type of the left operand of *
    lhs,    \* the left operand
    depth,  \* how many operations of the chain the current mul call carries
    accT,   \* the type of the value the last mul call returned
    acc,    \* the value the last mul call returned
    srcT,   \* the type of the operand of the last operation applied
    src     \* the operand of the last operation applied

vars == << chain, pc, lhsT, lhs, depth, accT, acc, srcT, src >>

Init ==
    /\ chain = << >>
    /\ pc = "build"
    /\ lhsT = "none"
    /\ lhs = << >>
    /\ depth = 0
    /\ accT = "none"
    /\ acc = << >>
    /\ srcT = "none"
    /\ src = << >>

\* Writing  .name  after the chain: the field is looked up from Bb itself
\* for the first field and from the RL of the chain afterwards.
Access(name) ==
    /\ pc = "build"
    /\ Len(chain) < MaxChain
    /\ LET found == FieldLookup(IF chain = << >> THEN "Bb" ELSE "RL", name)
       IN  /\ found # "none"
           /\ chain' = Append(chain, found)
    /\ UNCHANGED << pc, lhsT, lhs, depth, accT, acc, srcT, src >>

\* lhs * chain  for a left operand of type T that has no Mul impl for the
\* chain's type: the expression does not compile.
MulRejected(T) ==
    /\ pc = "build"
    /\ MulT(T, chain) = NoImpl
    /\ pc' = "rejected"
    /\ lhsT' = T
    /\ UNCHANGED << chain, lhs, depth, accT, acc, srcT, src >>

\* lhs * chain  type-checks: the outermost mul is called with the value v.
MulCall(T, v) ==
    /\ pc = "build"
    /\ MulT(T, chain) # NoImpl
    /\ pc' = "call"
    /\ lhsT' = T
    /\ lhs' = v
    /\ depth' = Len(chain)
    /\ UNCHANGED << chain, accT, acc, srcT, src >>

\* mul(self, _: RL<Op, U>)  evaluates  self * make_zst::<U>()  first.
MulEnter ==
    /\ pc = "call"
    /\ depth > 0
    /\ depth' = depth - 1
    /\ UNCHANGED << chain, pc, lhsT, lhs, accT, acc, srcT, src >>

\* The innermost call is  self * Bb .
MulBb ==
    /\ pc = "call"
    /\ depth = 0
    /\ acc' = mul_Bb(lhs)
    /\ accT' = lhsT
    /\ pc' = IF chain = << >> THEN "done" ELSE "ret"
    /\ UNCHANGED << chain, lhsT, lhs, depth, srcT, src >>

\* The call that carries depth + 1 operations gets its inner value back,
\* applies its own operation to it and returns.
MulReturn ==
    /\ pc = "ret"
    /\ depth < Len(chain)
    /\ LET Op == CallOp(chain, depth + 1)
       IN  /\ src' = acc
           /\ srcT' = accT
           /\ acc' = mul_RL(Op, acc, accT)
           /\ accT' = mul_RL_Output(Op, accT)
    /\ depth' = depth + 1
    /\ pc' = IF depth + 1 = Len(chain) THEN "done" ELSE "ret"
    /\ UNCHANGED << chain, lhsT, lhs >>

Next ==
    \/ \E name \in FieldNames : Access(name)
    \/ \E T \in Kinds : MulRejected(T)
    \/ \E T \in Kinds : \E v \in Values(T) : MulCall(T, v)
    \/ MulEnter
    \/ MulBb
    \/ MulReturn

Spec == Init /\ [][Next]_vars

TypeOK ==
    /\ chain \in Seq(Ops) /\ Len(chain) <= MaxChain
    /\ pc \in {"build", "call", "ret", "done", "rejected"}
    /\ lhsT \in Kinds \cup {"none"}
    /\ depth \in 0 .. Len(chain)
    /\ accT \in Kinds \cup {"none"}
    /\ accT \in Kinds => acc \in [1 .. Width(accT) \div 8 -> Byte]
    /\ srcT \in Kinds => src \in [1 .. Width(srcT) \div 8 -> Byte]
    /\ pc = "done" => accT = MulT(lhsT, chain)

----------------------------------------------------------------------------
(* The vocabulary of the specification: Kinds as (sign, width), the         *)
(* operations' applicability and output-kind rules, and the numeric         *)
(* readings of a byte pattern.                                              *)

KindOf(signed, w) ==
    CHOOSE K \in Kinds : IsSigned(K) = signed /\ Width(K) = w

TruncateOps == {"Truncate8", "Truncate16", "Truncate32", "Truncate64"}
ExtendOps == {"Extend16", "Extend32", "Extend64", "Extend128"}
SignOps == {"CastSigned", "CastUnsigned"}

\* The target width an operation names: the w of Truncate(w), Extend(w).
TargetWidth(Op) ==
    CASE Op \in {"Truncate8"} -> 8
      [] Op \in {"Truncate16", "Extend16"} -> 16
      [] Op \in {"Truncate32", "Extend32"} -> 32
      [] Op \in {"Truncate64", "Extend64"} -> 64
      [] Op \in {"Extend128"} -> 128

\* The applicability rule: Truncate(w) when w is strictly less than the
\* current width, Extend(w) when strictly greater, the sign casts always.
RuleApplicable(Op, K) ==
    CASE Op \in TruncateOps -> TargetWidth(Op) < Width(K)
      [] Op \in ExtendOps -> TargetWidth(Op) > Width(K)
      [] OTHER -> TRUE

\* The output-kind rule.
RuleOutput(Op, K) ==
    CASE Op = "CastSigned" -> KindOf(TRUE, Width(K))
      [] Op = "CastUnsigned" -> KindOf(FALSE, Width(K))
      [] OTHER -> KindOf(IsSigned(K), TargetWidth(Op))

\* The walk of a chain in the Kind graph from K: its output Kind, or NoImpl
\* when some step is not applicable to the Kind its predecessor produced.
RECURSIVE RuleWalk(_, _, _)
RuleWalk(K, ops, i) ==
    IF i > Len(ops) THEN K
    ELSE IF ~RuleApplicable(ops[i], K) THEN NoImpl
    ELSE RuleWalk(RuleOutput(ops[i], K), ops, i + 1)

\* Bit i (0 the least significant) of a byte pattern.
Bit(b, i) == (b[(i \div 8) + 1] \div (2 ^ (i % 8))) % 2

\* The unsigned reading of a pattern of at most two bytes.
ToNat(b) == IF Len(b) = 1 THEN b[1] ELSE b[1] + 256 * b[2]

\* The reading of a pattern of at most two bytes as a value of type T.
ToInt(b, T) ==
    IF IsSigned(T) /\ b[Len(b)] >= 128 THEN ToNat(b) - 2 ^ Width(T) ELSE ToNat(b)

\* Whether the pattern b read as a value of type T is negative.
Negative(b, T) == IsSigned(T) /\ b[Len(b)] >= 128

\* A natural number as its base-256 digits, least significant first,
\* without leading zero digits.
RECURSIVE Strip(_)
Strip(b) ==
    IF Len(b) = 0 THEN << >>
    ELSE IF b[Len(b)] # 0 THEN [i \in 1 .. Len(b) |-> b[i]]
    ELSE Strip(SubSeq(b, 1, Len(b) - 1))

Digit(b, i) == IF i <= Len(b) THEN b[i] ELSE 0

RECURSIVE AddCarry(_, _, _)
AddCarry(a, b, i) ==
    IF i = 1 THEN 0
    ELSE (Digit(a, i - 1) + Digit(b, i - 1) + AddCarry(a, b, i - 1)) \div 256

\* a + b on naturals in base 256.
Add(a, b) ==
    LET n == (IF Len(a) > Len(b) THEN Len(a) ELSE Len(b)) + 1
    IN  Strip([i \in 1 .. n |-> (Digit(a, i) + Digit(b, i) + AddCarry(a, b, i)) % 256])

\* 2^w in base 256, w a multiple of 8.
Pow2(w) == [i \in 1 .. (w \div 8) + 1 |-> IF i = (w \div 8) + 1 THEN 1 ELSE 0]

\* |v| of the value v that pattern b is under type T: the magnitude m of a
\* negative v is the one with  m + pattern = 2^width.
Magnitude(b, T) ==
    IF ~Negative(b, T) THEN Strip(b)
    ELSE LET inv == [i \in 1 .. Len(b) |-> 255 - b[i]]
         IN  Add(inv, << 1 >>)

\* The integer that pattern b is under type T, as sign and magnitude.
Num(b, T) == [neg |-> Negative(b, T), mag |-> Magnitude(b, T)]

\* Decimal digits (most significant first) of a natural in base 256.
RECURSIVE Rem10(_, _)
Rem10(b, i) == IF i > Len(b) THEN 0 ELSE (Rem10(b, i + 1) * 256 + b[i]) % 10

Quot10(b) == [i \in 1 .. Len(b) |-> (Rem10(b, i + 1) * 256 + b[i]) \div 10]

RECURSIVE Dec(_)
Dec(b) ==
    IF Strip(b) = << >> THEN << >> ELSE Dec(Strip(Quot10(b))) \o << Rem10(b, 1) >>

\* An operation has just been applied: src of type srcT went in, acc of
\* type accT came out.
Applied == pc \in {"ret", "done"} /\ depth >= 1
LastOp == chain[depth]
Evaluated == pc \in {"call", "ret", "done"}

----------------------------------------------------------------------------
(* C2.  Extend(m) on Kind(sign, n), m > n, is accepted, yields Kind(sign,  *)
(* m) and preserves the numeric value: the low n bits are kept and the new *)
(* high-order bits are copies of the old most significant bit for a signed *)
(* input and 0 for an unsigned one.  signed-8 -1 becomes signed-16 -1      *)
(* (0xFFFF) and unsigned-8 255 becomes unsigned-16 255 (0x00FF).           *)
C2_Extend ==
    /\ (Applied /\ LastOp \in ExtendOps) =>
        LET n == Width(srcT)
            m == TargetWidth(LastOp)
        IN  /\ m > n
            /\ accT = KindOf(IsSigned(srcT), m)
            /\ Len(acc) * 8 = m
            /\ \A i \in 0 .. n - 1 : Bit(acc, i) = Bit(src, i)
            /\ \A i \in n .. m - 1 :
                  Bit(acc, i) = (IF IsSigned(srcT) THEN Bit(src, n - 1) ELSE 0)
            /\ Num(acc, accT) = Num(src, srcT)
            /\ m = 16 => ToInt(acc, accT) = ToInt(src, srcT)
    /\ (Applied /\ LastOp = "Extend16" /\ srcT = "i8" /\ src = << 255 >>) =>
        accT = "i16" /\ acc = << 255, 255 >> /\ ToInt(acc, accT) = -1
    /\ (Applied /\ LastOp = "Extend16" /\ srcT = "u8" /\ src = << 255 >>) =>
        accT = "u16" /\ acc = << 255, 0 >> /\ ToInt(acc, accT) = 255
    /\ (pc = "rejected" /\ Len(chain) = 1 /\ chain[1] \in ExtendOps) =>
        TargetWidth(chain[1]) <= Width(lhsT)

\* signed-8 -1 has been extended to signed-16 -1.
C2_Witness ==
    /\ Applied /\ LastOp = "Extend16"
    /\ srcT = "i8" /\ src = << 255 >>
    /\ accT = "i16" /\ acc = << 255, 255 >>

(* C3.  Truncate(w) on Kind(sign, n), w < n, is accepted and yields        *)
(* Kind(sign, w) whose pattern is the low-order w bits of the input's      *)
(* pattern.  unsigned-64 18446744073709551615 becomes unsigned-8 255 and   *)
(* signed-32 -1 becomes signed-8 -1.                                       *)
C3_Truncate ==
    /\ (Applied /\ LastOp \in TruncateOps) =>
        LET n == Width(srcT)
            w == TargetWidth(LastOp)
        IN  /\ w < n
            /\ accT = KindOf(IsSigned(srcT), w)
            /\ Len(acc) * 8 = w
            /\ \A i \in 0 .. w - 1 : Bit(acc, i) = Bit(src, i)
            /\ n = 16 => ToNat(acc) = ToNat(src) % (2 ^ w)
    /\ (Applied /\ LastOp = "Truncate8" /\ srcT = "u64"
            /\ Dec(src) = << 1,8,4,4,6,7,4,4,0,7,3,7,0,9,5,5,1,6,1,5 >>) =>
        accT = "u8" /\ ToInt(acc, accT) = 255
    /\ (Applied /\ LastOp = "Truncate8" /\ srcT = "i32"
            /\ Num(src, srcT) = [neg |-> TRUE, mag |-> << 1 >>]) =>
        accT = "i8" /\ ToInt(acc, accT) = -1
    /\ (pc = "rejected" /\ Len(chain) = 1 /\ chain[1] \in TruncateOps) =>
        TargetWidth(chain[1]) >= Width(lhsT)

\* u64::MAX has been truncated to unsigned-8 255.
C3_Witness ==
    /\ Applied /\ LastOp = "Truncate8"
    /\ srcT = "u64" /\ src = << 255, 255, 255, 255, 255, 255, 255, 255 >>
    /\ accT = "u8" /\ acc = << 255 >>

(* C1.  A chain is accepted for a starting Kind if and only if every step  *)
(* is applicable to the Kind produced by its predecessor: Truncate(w)      *)
(* exactly when w is strictly less than the current width, Extend(w)       *)
(* exactly when strictly greater.                                          *)
C1_AcceptedIffApplicable ==
    /\ pc = "rejected" => RuleWalk(lhsT, chain, 1) = NoImpl
    /\ Evaluated => RuleWalk(lhsT, chain, 1) # NoImpl

\* The cast of Kind K's own signedness, and the other one.
OwnCast(K) == IF IsSigned(K) THEN "CastSigned" ELSE "CastUnsigned"
OtherCast(K) == IF IsSigned(K) THEN "CastUnsigned" ELSE "CastSigned"

(* C4.  Double SignFlip law: for every one of the 10 Kinds K and every     *)
(* value v of K, changing the sign twice in a row (from K to the           *)
(* opposite-sign Kind of the same width and back: .s.u for unsigned K,     *)
(* .u.s for signed K) is accepted and returns a value of Kind K equal to   *)
(* v, the bit pattern unchanged at both steps.                             *)
C4_DoubleSignFlip ==
    /\ (pc = "ret" /\ depth = 1 /\ chain = << OtherCast(lhsT), OwnCast(lhsT) >>) =>
        /\ accT = KindOf(~IsSigned(lhsT), Width(lhsT))
        /\ acc = lhs
    /\ (pc = "done" /\ chain = << OtherCast(lhsT), OwnCast(lhsT) >>) =>
        /\ srcT = KindOf(~IsSigned(lhsT), Width(lhsT))
        /\ src = lhs
        /\ accT = lhsT
        /\ acc = lhs
        /\ Num(acc, accT) = Num(lhs, lhsT)
    /\ (pc = "rejected" /\ Len(chain) = 2) =>
        chain # << OtherCast(lhsT), OwnCast(lhsT) >>

\* unsigned-8 255 has gone through .s.u and is unsigned-8 255 again.
C4_Witness ==
    /\ pc = "done" /\ chain = << "CastSigned", "CastUnsigned" >>
    /\ lhsT = "u8" /\ lhs = << 255 >>
    /\ srcT = "i8"
    /\ accT = "u8" /\ acc = << 255 >>

(* C5.  The sign operations are target-signedness casts: .s yields         *)
(* Kind(Signed, n) and .u yields Kind(Unsigned, n), the n-bit pattern      *)
(* unchanged, whatever the input signedness; they apply to every Kind; and *)
(* after a run of .s/.u steps the signedness is that of the last step      *)
(* (255 as unsigned-8 through .s.u.s is signed-8 -1).                      *)
C5_SignCasts ==
    /\ (Applied /\ LastOp = "CastSigned") =>
        accT = KindOf(TRUE, Width(srcT)) /\ acc = src
    /\ (Applied /\ LastOp = "CastUnsigned") =>
        accT = KindOf(FALSE, Width(srcT)) /\ acc = src
    /\ (Applied /\ LastOp = OwnCast(srcT)) =>
        accT = srcT /\ Num(acc, accT) = Num(src, srcT)
    /\ (pc = "done" /\ chain # << >> /\ \A i \in DOMAIN chain : chain[i] \in SignOps) =>
        /\ accT = KindOf(chain[Len(chain)] = "CastSigned", Width(lhsT))
        /\ acc = lhs
    /\ pc = "rejected" => \E i \in DOMAIN chain : chain[i] \notin SignOps
    /\ (pc = "done" /\ chain = << "CastSigned", "CastUnsigned", "CastSigned" >>
            /\ lhsT = "u8" /\ ToInt(lhs, lhsT) = 255) =>
        accT = "i8" /\ ToInt(acc, accT) = -1

\* 255 as unsigned-8 has gone through .s.u.s and is signed-8 -1.
C5_Witness ==
    /\ pc = "done" /\ chain = << "CastSigned", "CastUnsigned", "CastSigned" >>
    /\ lhsT = "u8" /\ lhs = << 255 >>
    /\ accT = "i8" /\ acc = << 255 >>

\* The operations ops[i], ..., ops[k] applied in that order to v of type T.
RECURSIVE LeftFold(_, _, _, _, _)
LeftFold(ops, i, k, T, v) ==
    IF i > k THEN << T, v >>
    ELSE LeftFold(ops, i + 1, k, mul_RL_Output(ops[i], T), mul_RL(ops[i], v, T))

(* C6.  A chain is applied as a left-to-right fold: what the call carrying *)
(* the first d operations returns is those operations applied in the order *)
(* written, each to the result and Kind of the ones before it.  So for a   *)
(* signed Kind of width n, m > n and negative v, [cast-to-unsigned,        *)
(* Extend(m)] is accepted and gives v + 2^n, [Extend(m), cast-to-unsigned] *)
(* is accepted and gives v + 2^m, both of Kind(Unsigned, m); -1 as         *)
(* signed-32 through .u.e64.s is 4294967295 (signed-64) and 254 as         *)
(* unsigned-8 through .s.e16.u is 65534 (unsigned-16).                     *)
C6_Fold ==
    /\ pc \in {"ret", "done"} =>
        << accT, acc >> = LeftFold(chain, 1, depth, lhsT, lhs)
    /\ (pc = "done" /\ Len(chain) = 2 /\ Negative(lhs, lhsT)
            /\ chain[1] = "CastUnsigned" /\ chain[2] \in ExtendOps) =>
        /\ accT = KindOf(FALSE, TargetWidth(chain[2]))
        /\ Add(Magnitude(acc, accT), Magnitude(lhs, lhsT)) = Pow2(Width(lhsT))
    /\ (pc = "done" /\ Len(chain) = 2 /\ Negative(lhs, lhsT)
            /\ chain[1] \in ExtendOps /\ chain[2] = "CastUnsigned") =>
        /\ accT = KindOf(FALSE, TargetWidth(chain[1]))
        /\ Add(Magnitude(acc, accT), Magnitude(lhs, lhsT)) = Pow2(TargetWidth(chain[1]))
    /\ (pc = "rejected" /\ IsSigned(lhsT) /\ Len(chain) = 2
            /\ \E e \in ExtendOps :
                  /\ TargetWidth(e) > Width(lhsT)
                  /\ chain \in {<< "CastUnsigned", e >>, << e, "CastUnsigned" >>}) =>
        FALSE
    /\ (pc = "done" /\ chain = << "CastUnsigned", "Extend64", "CastSigned" >>
            /\ lhsT = "i32" /\ Num(lhs, lhsT) = [neg |-> TRUE, mag |-> << 1 >>]) =>
        /\ accT = "i64"
        /\ ~Negative(acc, accT)
        /\ Dec(acc) = << 4, 2, 9, 4, 9, 6, 7, 2, 9, 5 >>
    /\ (pc = "done" /\ chain = << "CastSigned", "Extend16", "CastUnsigned" >>
            /\ lhsT = "u8" /\ ToInt(lhs, lhsT) = 254) =>
        accT = "u16" /\ ToInt(acc, accT) = 65534

\* -1 as signed-32 has gone through .u.e64.s and is 4294967295.
C6_Witness ==
    /\ pc = "done" /\ chain = << "CastUnsigned", "Extend64", "CastSigned" >>
    /\ lhsT = "i32" /\ lhs = << 255, 255, 255, 255 >>
    /\ accT = "i64" /\ acc = << 255, 255, 255, 255, 0, 0, 0, 0 >>

(* C7.  Extend-then-Truncate round trip: for every unsigned Kind of width  *)
(* n, every supported width m > n and every value v, the chain             *)
(* [Extend(m), Truncate(n)] is well-formed, has output Kind(Unsigned, n)   *)
(* and returns v.                                                          *)
C7_ExtendTruncateRoundTrip ==
    (/\ pc \in {"rejected", "done"}
     /\ ~IsSigned(lhsT)
     /\ Len(chain) = 2
     /\ chain[1] \in ExtendOps /\ TargetWidth(chain[1]) > Width(lhsT)
     /\ chain[2] \in TruncateOps /\ TargetWidth(chain[2]) = Width(lhsT)) =>
        pc = "done" /\ accT = lhsT /\ acc = lhs

(* C8.  Identity law: for every Kind and value v the empty chain (v * Bb)  *)
(* is accepted and returns v with the same Kind; the Bb every chain starts *)
(* from hands the operand on unchanged, and multiplying a chain's result   *)
(* by Bb changes neither its Kind nor its value.                           *)
C8_Identity ==
    /\ (pc = "done" /\ chain = << >>) => accT = lhsT /\ acc = lhs
    /\ (pc = "ret" /\ depth = 0) => accT = lhsT /\ acc = lhs
    /\ pc = "done" => MulT(accT, << >>) = accT /\ mul_Bb(acc) = acc
    /\ pc = "rejected" => chain # << >>

\* 5 as unsigned-8 times Bb is 5 as unsigned-8.
C8_Witness ==
    /\ pc = "done" /\ chain = << >>
    /\ lhsT = "u8" /\ lhs = << 5 >>
    /\ accT = "u8" /\ acc = << 5 >>

(* C9.  Chains are fully composable: after any well-formed prefix every    *)
(* one of the ten field names can be written next, found exactly once by   *)
(* the walk s, u, t8, e64, t16, e32, t32, e16, t64, e128, and the extended *)
(* chain is well-formed exactly when the operation is applicable to the    *)
(* prefix's output Kind, its output Kind being the one the rule gives.     *)
C9_Composable ==
    /\ DerefWalk("RL") =
          << "s", "u", "t8", "e64", "t16", "e32", "t32", "e16", "t64", "e128" >>
    /\ \A name \in FieldNames : FieldOf(FieldLookup("RL", name)) = name
    /\ (pc # "build" /\ chain # << >>
            /\ MulT(lhsT, SubSeq(chain, 1, Len(chain) - 1)) # NoImpl) =>
        LET K == MulT(lhsT, SubSeq(chain, 1, Len(chain) - 1))
            Op == chain[Len(chain)]
        IN  /\ pc = "rejected" <=> ~RuleApplicable(Op, K)
            /\ pc = "done" => accT = RuleOutput(Op, K)

\* The chains of at most k operations.
ChainsUpTo(k) == UNION {[1 .. j -> Ops] : j \in 0 .. k}

(* C10.  Kind-graph reachability: no Kind is terminal (every Kind a chain  *)
(* produces has an operation leading to another Kind), and from every      *)
(* starting Kind A there is, for every Kind B, a well-formed chain of at   *)
(* most 3 operations whose output Kind is B.                               *)
C10_Reachable ==
    /\ pc = "done" =>
        \E Op \in Ops : MulT(accT, << Op >>) \notin {NoImpl, accT}
    /\ (pc = "done" /\ chain = << >>) =>
        \A B \in Kinds : \E c \in ChainsUpTo(3) : MulT(lhsT, c) = B

\* A chain of at most 3 operations has led from unsigned-128 to signed-8.
C10_Witness ==
    /\ pc = "done" /\ Len(chain) <= 3
    /\ lhsT = "u128" /\ accT = "i8"

====
